---- MODULE Spec2Model ----
(***************************************************************************)
(* Model of fictionflow's end-to-end pipeline (src/src/cli.ts):            *)
(* handleRun's cycle controller, the stage handlers it awaits, the gate    *)
(* decision of handleGate, and the numbered run directories of             *)
(* determineNextRunDir.                                                    *)
(*                                                                         *)
(* Numbers with a fractional part in the source (ratings, averages and     *)
(* thresholds) are fixed-point here: Scale units to one rating point.      *)
(* A model's text output is identified by the call that produced it.       *)
(* A directory entry of the output base directory is named by the triple   *)
(* (index, label, suffix): "<NNN>" is label "", "<NNN>_failed-2" is label   *)
(* "failed" with suffix 2.                                                 *)
(***************************************************************************)
EXTENDS Integers, Sequences, FiniteSets, TLC

\* ------------------------------------------------------------------ bounds

\* Longest confusions list a judge returns in the gate specification.
MaxConfusionList == 8

\* Structured calls of one run whose first attempt fails inside the handler's
\* try block (an unparseable or schema-violating response, or the artifact
\* write failing); the retry of such a call may fail too.
MaxInvalid == 1

\* Runs made one after the other against one base directory.
MaxRuns == 3

\* Runs started at the same time against one base directory.
MaxProcs == 2

\* Length of a model identifier, in tokens.
MaxIdLen == 5

\* Most entries of the revision_plan in an aggregator response.
MaxPlanEntries == 4

\* Calls of callModel that reach a backend in one process.
MaxCalls == 3

\* ------------------------------------------------------- program constants

\* Fixed-point scale: 100 units are one rating point (1.5 is 150).
Scale == 100

\* The cap, were it raised to three.
maxCyclesRaised == 2 + 1

maxCycles == 2

maxConfusions == 15

\* revision_plan: z.array(...).max(3)
maxRevisionPlan == 3

RatingMin == 0

RatingMax == 3

Dims == {"clarity", "stakes", "momentum", "ending_resonance"}

minScores ==
  [clarity |-> Scale, stakes |-> Scale, momentum |-> (3 * Scale) \div 2,
   ending_resonance |-> Scale]

RUN_FILE_NAMES ==
  [draft |-> "01-draft.md",
   critiqueClaude |-> "02-critique_claude.json",
   critiqueDeepseek |-> "03-critique_deepseek.json",
   plan |-> "04-plan.json",
   revised |-> <<"05-01-revised.md", "05-02-revised.md", "05-03-revised.md">>,
   retellClaude |-> "06-retell_claude.json",
   retellDeepseek |-> "07-retell_deepseek.json",
   published |-> "08-published.md",
   title |-> "09-title.txt",
   metadata |-> "10-metadata.json"]

\* outputPath.replace(/\.json$/, "_raw.txt") for the five structured artifacts.
RawPath(p) ==
  CASE p = "02-critique_claude.json" -> "02-critique_claude_raw.txt"
    [] p = "03-critique_deepseek.json" -> "03-critique_deepseek_raw.txt"
    [] p = "04-plan.json" -> "04-plan_raw.txt"
    [] p = "06-retell_claude.json" -> "06-retell_claude_raw.txt"
    [] p = "07-retell_deepseek.json" -> "07-retell_deepseek_raw.txt"

\* ------------------------------------------------------------------ values

None == [kind |-> "none"]

Put(f, k, v) == [x \in (DOMAIN f) \cup {k} |-> IF x = k THEN v ELSE f[x]]

EmptyFiles == [x \in {} |-> None]

\* A confusions list of n entries.
Confusions(n) == [i \in 1..n |-> "q"]

Uniform(v) == [d \in Dims |-> v]

\* ------------------------------------------------------------ handleGate

\* String.prototype.trim over a sequence of characters.
RECURSIVE TrimLeft(_)
TrimLeft(s) == IF s # <<>> /\ Head(s) = " " THEN TrimLeft(Tail(s)) ELSE s

RECURSIVE TrimRight(_)
TrimRight(s) ==
  IF s # <<>> /\ s[Len(s)] = " " THEN TrimRight(SubSeq(s, 1, Len(s) - 1)) ELSE s

Trim(s) == TrimRight(TrimLeft(s))

LowerChar(c) ==
  CASE c = "A" -> "a"
    [] c = "B" -> "b"
    [] OTHER -> c

ToLowerCase(s) == [i \in 1..Len(s) |-> LowerChar(s[i])]

avgRatings(critiqueA, critiqueB) ==
  [d \in Dims |-> (critiqueA.ratings[d] + critiqueB.ratings[d]) \div 2]

totalConfusions(critiqueA, critiqueB) ==
  Len(critiqueA.confusions) + Len(critiqueB.confusions)

retellMatch(retellA, retellB) ==
  ToLowerCase(Trim(retellA.retell)) = ToLowerCase(Trim(retellB.retell))

\* The momentum threshold taken as exclusive.
scoresPassStrict(avg) ==
  /\ avg.clarity >= minScores.clarity
  /\ avg.stakes >= minScores.stakes
  /\ avg.momentum > minScores.momentum
  /\ avg.ending_resonance >= minScores.ending_resonance

scoresPass(avg) ==
  /\ avg.clarity >= minScores.clarity
  /\ avg.stakes >= minScores.stakes
  /\ avg.momentum >= minScores.momentum
  /\ avg.ending_resonance >= minScores.ending_resonance

confusionsPass(total) == total <= maxConfusions

\* The decision with the retell requirement reinstated.
publishDecisionWithRetell(sp, cp, rm) == sp /\ cp /\ rm

publishDecision(sp, cp, rm) == sp /\ cp

\* The gate's result for two critiques and two retells.
handleGate(critiqueA, critiqueB, retellA, retellB) ==
  LET avg == avgRatings(critiqueA, critiqueB)
      total == totalConfusions(critiqueA, critiqueB)
      rm == retellMatch(retellA, retellB)
  IN [avgRatings |-> avg,
      totalConfusions |-> total,
      retellMatch |-> rm,
      scoresPass |-> scoresPass(avg),
      confusionsPass |-> confusionsPass(total),
      publish |-> publishDecision(scoresPass(avg), confusionsPass(total), rm)]

\* ------------------------------------------------- run directories (fs)

\* A path of the output base directory.
Name(i, l, s) == [index |-> i, label |-> l, suffix |-> s]

\* path.join(baseOut, String(next).padStart(3, "0"))
PlainDir(i) == Name(i, "", 1)

NoDir == Name(0, "", 0)

\* entry.match(/^(\d{3})/) then parseInt: the first three digits of the name.
RECURSIVE Prefix3(_)
Prefix3(i) == IF i < 1000 THEN i ELSE Prefix3(i \div 10)

SetMax(S) == IF S = {} THEN 0 ELSE CHOOSE m \in S : \A x \in S : x <= m

\* The scan of determineNextRunDir: highest prefix among the directories.
scanMaxIndex(base) ==
  SetMax({Prefix3(n.index) : n \in {m \in DOMAIN base : base[m] = "dir"}})

\* The first candidate taken whether it exists or not.
claimLoopNot(base, next) == next

\* while (true) { if (!pathExists(candidate)) ...; next++ }
RECURSIVE claimLoop(_, _)
claimLoop(base, next) ==
  IF PlainDir(next) \notin DOMAIN base THEN next ELSE claimLoop(base, next + 1)

determineNextRunDir(base) ==
  LET next == claimLoop(base, scanMaxIndex(base) + 1)
  IN [index |-> next, dir |-> PlainDir(next)]

\* The target taken without the collision loop.
renameTargetNoLoop(base, runDir, index, label, suffix) == Name(index, label, suffix)

\* The collision loop of both finalizations: suffix 1 is the bare name.
RECURSIVE renameTarget(_, _, _, _, _)
renameTarget(base, runDir, index, label, suffix) ==
  IF Name(index, label, suffix) \in DOMAIN base /\ Name(index, label, suffix) # runDir
  THEN renameTarget(base, runDir, index, label, suffix + 1)
  ELSE Name(index, label, suffix)

\* The claim without the directory being created.
MakeDirNot(base, d) == base

\* fs.ensureDir(candidate)
MakeDir(base, d) == Put(base, d, "dir")

\* fs.rename(runDir, targetDir)
Rename(base, from, to) ==
  [n \in ((DOMAIN base) \ {from}) \cup {to} |-> IF n = to THEN base[from] ELSE base[n]]

\* slugify(finalTitle) || "untitled"
slugify(title) ==
  CASE title = "The Title" -> "the-title"
    [] OTHER -> ""

titleSlug(title) == IF slugify(title) = "" THEN "untitled" ELSE slugify(title)

\* ------------------------------------------------------ model responses

Titles == {"The Title", "???"}

\* What the writer returns: the draft, or the revision of a cycle.
StoryText(by, c) == [kind |-> "story", by |-> by, cycle |-> c]

\* Ratings and confusions the judges give in a run.
JudgeCritiques ==
  { [ratings |-> Uniform(RatingMax * Scale), confusions |-> Confusions(0)],
    [ratings |-> Uniform(Scale), confusions |-> Confusions(1)],
    [ratings |-> Uniform((RatingMax + 1) * Scale), confusions |-> Confusions(0)] }

\* Judge A's retell, and the retells Judge B may give: the same up to case
\* and outer blanks, or another text.
JudgeARetells == { <<"a">> }

JudgeRetells == { <<"A", " ">>, <<"b">> }

PlanGates == { [min_avg_scores |-> Uniform((5 * Scale) \div 2), max_confusions |-> 2] }

CritiqueDoc(c, text) ==
  [kind |-> "critique", ratings |-> c.ratings, confusions |-> c.confusions,
   about |-> text]

RetellDoc(r, text) == [kind |-> "retell", retell |-> r, about |-> text]

PlanDoc(g, text) == [kind |-> "plan", gate |-> g, about |-> text]

\* A schema that takes any parsed document.
schemaParseAnything(doc) == TRUE

\* schema.parse(parsed) in parseJson: the ratings of a critique lie in 0..3.
schemaParse(doc) ==
  doc.kind = "critique" =>
    \A d \in Dims : doc.ratings[d] >= RatingMin * Scale /\ doc.ratings[d] <= RatingMax * Scale

\* One attempt of a structured call: the response is a valid document that
\* is written, a valid document whose artifact file cannot be written, an
\* invalid text, or callModel throws.
Attempts(docs) ==
  {[t |-> "valid", doc |-> d] : d \in {x \in docs : schemaParse(x)}}
    \cup {[t |-> "invalid", doc |-> None], [t |-> "writefail", doc |-> None],
          [t |-> "throw", doc |-> None]}

\* The first attempt ends in the handler's catch: parseJson or the
\* fs.writeFile after it threw inside the try block.
Caught(a) == a.t \in {"invalid", "writefail"}

\* What a structured call takes of the run's budget of failing first
\* attempts: an invalid first response one unit, an artifact write failure
\* the whole budget (a run has at most one, and then no invalid response).
InvalidCount(a1, a2) ==
  CASE a1.t = "invalid" -> 1
    [] a1.t = "writefail" -> MaxInvalid
    [] OTHER -> 0

\* parseJson's catch: the raw text goes to <name>_raw.txt.
SaveRaw(fs, path, c, k) ==
  Put(fs, RawPath(path), [kind |-> "raw", of |-> path, cycle |-> c, attempt |-> k])

\* An attempt that leaves an artifact of an earlier cycle in place.
attemptFilesKeep(fs, path, c, k, a) ==
  CASE a.t = "valid" -> IF path \in DOMAIN fs THEN fs ELSE Put(fs, path, a.doc)
    [] a.t = "invalid" -> SaveRaw(fs, path, c, k)
    [] OTHER -> fs

\* What attempt k leaves in the run directory.
attemptFiles(fs, path, c, k, a) ==
  CASE a.t = "valid" -> Put(fs, path, a.doc)
    [] a.t = "invalid" -> SaveRaw(fs, path, c, k)
    [] OTHER -> fs

\* The pattern with the retry's document parsed but not written.
validatedCallRetryUnwritten(fs, path, c, a1, a2) ==
  IF Caught(a1)
  THEN [ok |-> a2.t = "valid",
        files |-> IF a2.t = "valid"
                  THEN attemptFiles(fs, path, c, 1, a1)
                  ELSE attemptFiles(attemptFiles(fs, path, c, 1, a1), path, c, 2, a2),
        calls |-> 2, made |-> <<a1, a2>>]
  ELSE [ok |-> a1.t = "valid", files |-> attemptFiles(fs, path, c, 1, a1),
        calls |-> 1, made |-> <<a1>>]

\* The pattern with the first response's document parsed but not written.
validatedCallFirstUnwritten(fs, path, c, a1, a2) ==
  IF Caught(a1)
  THEN [ok |-> a2.t = "valid",
        files |-> attemptFiles(attemptFiles(fs, path, c, 1, a1), path, c, 2, a2),
        calls |-> 2, made |-> <<a1, a2>>]
  ELSE [ok |-> a1.t = "valid", files |-> fs, calls |-> 1, made |-> <<a1>>]

\* The pattern with a second retry: a third invocation after two failures.
validatedCallTwoRetries(fs, path, c, a1, a2) ==
  IF Caught(a1)
  THEN [ok |-> a2.t = "valid",
        files |-> attemptFiles(attemptFiles(fs, path, c, 1, a1), path, c, 2, a2),
        calls |-> IF Caught(a2) THEN 3 ELSE 2,
        made |-> IF Caught(a2) THEN <<a1, a2, a2>> ELSE <<a1, a2>>]
  ELSE [ok |-> a1.t = "valid", files |-> attemptFiles(fs, path, c, 1, a1),
        calls |-> 1, made |-> <<a1>>]

\* The call, parse, retry-once pattern of handleCritique, handleAggregate and
\* handleRetell for one output path: the files afterwards, whether the handler
\* goes on, and the model invocations made (made: their outcomes, in order).
\* The retry is the handler's catch block, entered by whatever the try block
\* throws; the first callModel stands before the try.
validatedCall(fs, path, c, a1, a2) ==
  IF Caught(a1)
  THEN [ok |-> a2.t = "valid",
        files |-> attemptFiles(attemptFiles(fs, path, c, 1, a1), path, c, 2, a2),
        calls |-> 2, made |-> <<a1, a2>>]
  ELSE [ok |-> a1.t = "valid", files |-> attemptFiles(fs, path, c, 1, a1),
        calls |-> 1, made |-> <<a1>>]

\* ------------------------------------------------------------ parseJson

\* A raw response is a sequence of tokens: "fence" the marker ```, "json",
\* "JSON", "js", "5" pieces of a language tag, " " white space (blank or line
\* break), "{" "item" "}" the pieces of a plan's JSON text, "x" prose.

\* cleaned.replace(/^```json\s*/, "") and cleaned.replace(/^```\s*/, ""), on a
\* text that starts with the n tokens of the marker
stripOpening(cleaned, n) == TrimLeft(SubSeq(cleaned, n + 1, Len(cleaned)))

\* cleaned.replace(/\s*```$/, "")
stripClosing(cleaned) ==
  IF cleaned # <<>> /\ cleaned[Len(cleaned)] = "fence"
  THEN TrimRight(SubSeq(cleaned, 1, Len(cleaned) - 1))
  ELSE cleaned

\* The if / else if on cleaned.startsWith("```json") and startsWith("```")
stripFence(cleaned) ==
  IF Len(cleaned) >= 2 /\ cleaned[1] = "fence" /\ cleaned[2] = "json"
  THEN stripClosing(stripOpening(cleaned, 2))
  ELSE IF cleaned # <<>> /\ cleaned[1] = "fence"
       THEN stripClosing(stripOpening(cleaned, 1))
       ELSE cleaned

\* JSON.parse on the text of a plan: white space around the value is
\* allowed, anything else around or inside it is a SyntaxError.
JSONparse(text) ==
  LET t == Trim(text)
  IN IF /\ Len(t) >= 2
        /\ t[1] = "{"
        /\ t[Len(t)] = "}"
        /\ \A i \in 2..(Len(t) - 1) : t[i] = "item"
     THEN [ok |-> TRUE, value |-> [kind |-> "plan", revision_plan |-> Len(t) - 2]]
     ELSE [ok |-> FALSE, value |-> None]

\* A schema that takes a revision_plan of any length.
PlanUnbounded(parsed) == TRUE

\* Plan.parse: the revision_plan has at most 3 entries.
Plan(parsed) == parsed.revision_plan <= maxRevisionPlan

\* parseJson(raw, Plan, outputPath, false): the validated value, or the
\* error that its catch rethrows after saving the raw text.
parseJson(raw) ==
  LET parsed == JSONparse(stripFence(Trim(raw)))
  IN IF parsed.ok /\ Plan(parsed.value)
     THEN [ok |-> TRUE, value |-> parsed.value]
     ELSE [ok |-> FALSE, value |-> None]

\* What a response to handleAggregate's call amounts to in its try block.
planAttempt(raw) ==
  IF parseJson(raw).ok
  THEN [t |-> "valid", doc |-> parseJson(raw).value]
  ELSE [t |-> "invalid", doc |-> None]

\* ------------------------------------------------------------ callModel

\* Model identifiers are sequences of tokens: "/" and pieces of names.
\* <<"openrouter", "/", "x", "/", "gpt-5">> is "openrouter/x/gpt-5".
IdTokens == {"openai", "anthropic", "openrouter", "/", "gpt-5", "x"}

\* model.split("/")
RECURSIVE split(_)
split(id) ==
  IF \E i \in DOMAIN id : id[i] = "/"
  THEN LET k == CHOOSE i \in DOMAIN id :
                  id[i] = "/" /\ \A j \in 1..(i - 1) : id[j] # "/"
       IN <<SubSeq(id, 1, k - 1)>> \o split(SubSeq(id, k + 1, Len(id)))
  ELSE <<id>>

\* parts.slice(1).join("/")
RECURSIVE join(_)
join(parts) ==
  CASE parts = <<>> -> <<>>
    [] Len(parts) = 1 -> parts[1]
    [] OTHER -> parts[1] \o <<"/">> \o join(Tail(parts))

\* modelName.startsWith("gpt-5")
startsWithGpt5(modelName) == modelName # <<>> /\ modelName[1] = "gpt-5"

Providers == {"openai", "anthropic", "openrouter"}

\* throw new Error(`Unknown provider: ${provider}. Use format: ...`)
UnknownProvider(provider) ==
  [kind |-> "error", message |-> "Unknown provider", provider |-> provider,
   format |-> {<<"openai", "/">>, <<"anthropic", "/">>, <<"openrouter", "/">>}]

\* The request a backend is sent.
Backend(name, modelName, temp) ==
  [backend |-> name, model |-> modelName, temperature |-> temp]

\* A getter that constructs a client on every call.
getClientAnew(handles, provider) ==
  [handles |-> handles \cup {provider}, built |-> <<provider>>]

\* getOpenAI / getAnthropic / getOpenRouter: the module-level handle is
\* set on the first call and returned as it is afterwards.
getClient(handles, provider) ==
  IF provider \in handles
  THEN [handles |-> handles, built |-> <<>>]
  ELSE [handles |-> handles \cup {provider}, built |-> <<provider>>]

\* callModel with the model name cut at its second "/".
callModelSecondSegment(call, handles, reply) ==
  LET parts == split(call.model)
      provider == parts[1]
      modelName == IF Len(parts) > 1 THEN parts[2] ELSE <<>>
  IN IF provider \in {<<p>> : p \in Providers}
     THEN [clients |-> getClient(handles, provider[1]).handles,
           built |-> getClient(handles, provider[1]).built,
           sent |-> <<Backend(provider[1], modelName,
                              CASE provider[1] = "openai" ->
                                     IF startsWithGpt5(modelName)
                                     THEN Scale ELSE call.temperature
                                [] OTHER ->
                                     IF call.responseFormat = "json"
                                     THEN 0 ELSE call.temperature)>>,
           outcome |-> reply]
     ELSE [clients |-> handles, built |-> <<>>, sent |-> <<>>,
           outcome |-> UnknownProvider(provider)]

\* callModel without the gpt-5 temperature override.
callModelNoOverride(call, handles, reply) ==
  LET parts == split(call.model)
      provider == parts[1]
      modelName == join(Tail(parts))
  IN IF provider \in {<<p>> : p \in Providers}
     THEN [clients |-> getClient(handles, provider[1]).handles,
           built |-> getClient(handles, provider[1]).built,
           sent |-> <<Backend(provider[1], modelName,
                              CASE provider[1] = "openai" -> call.temperature
                                [] OTHER ->
                                     IF call.responseFormat = "json"
                                     THEN 0 ELSE call.temperature)>>,
           outcome |-> reply]
     ELSE [clients |-> handles, built |-> <<>>, sent |-> <<>>,
           outcome |-> UnknownProvider(provider)]

\* callModel(call) with the client handles set so far (handles) and the
\* backend's answer (reply): the handles afterwards, the request sent, and
\* what the caller gets.
callModel(call, handles, reply) ==
  LET parts == split(call.model)
      provider == parts[1]
      modelName == join(Tail(parts))
  IN IF provider \in {<<p>> : p \in Providers}
     THEN [clients |-> getClient(handles, provider[1]).handles,
           built |-> getClient(handles, provider[1]).built,
           sent |-> <<Backend(provider[1], modelName,
                              CASE provider[1] = "openai" ->
                                     IF startsWithGpt5(modelName)
                                     THEN Scale ELSE call.temperature
                                [] OTHER ->
                                     IF call.responseFormat = "json"
                                     THEN 0 ELSE call.temperature)>>,
           outcome |-> reply]
     ELSE [clients |-> handles, built |-> <<>>, sent |-> <<>>,
           outcome |-> UnknownProvider(provider)]

\* The user prompt of an attempt: the retry appends the JSON reminder.
attemptPrompt(attempt) == IF attempt = 1 THEN "prompt" ELSE "prompt+reminder"

\* The judges' call with the retry asking at the writer's temperature.
judgeCallWarm(model, attempt) ==
  [model |-> model, userPrompt |-> attemptPrompt(attempt),
   temperature |-> IF attempt = 1 THEN 0 ELSE (7 * Scale) \div 10,
   responseFormat |-> "json"]

\* The ModelCall of a judge in handleCritique and handleRetell (Judge A and
\* Judge B alike), first attempt and retry.
judgeCall(model, attempt) ==
  [model |-> model, userPrompt |-> attemptPrompt(attempt), temperature |-> 0,
   responseFormat |-> "json"]

\* The aggregator's call with the retry asking at the writer's temperature.
aggregateCallWarmRetry(model, attempt) ==
  [model |-> model, userPrompt |-> attemptPrompt(attempt),
   temperature |-> CASE attempt # 1 -> (7 * Scale) \div 10
                     [] startsWithGpt5(join(Tail(split(model)))) -> Scale
                     [] OTHER -> 0,
   responseFormat |-> "json"]

\* The ModelCall of handleAggregate: temperature =
\* modelName.startsWith("gpt-5") ? 1 : 0, the same for both attempts.
aggregateCall(model, attempt) ==
  [model |-> model, userPrompt |-> attemptPrompt(attempt),
   temperature |-> IF startsWithGpt5(join(Tail(split(model)))) THEN Scale ELSE 0,
   responseFormat |-> "json"]

\* ------------------------------------------------------------ run state

VARIABLES
  pc,                 \* where handleRun is
  base,               \* the output base directory: path -> "dir" | "file"
  base0,              \* history: the base directory as the run found it
  files,              \* the files of the run directory: name -> content
  runIndex,           \* const runIndex
  runDir,             \* let runDir
  currentStory,       \* let currentStory
  cycle,              \* let cycle
  publishSuccess,     \* let publishSuccess
  failureReason,      \* let failureReason
  finalTitle,         \* let finalTitle
  finalPublishedPath, \* let finalPublishedPath
  invalid,            \* structured calls so far whose first response was invalid
  trace,              \* history: the stage handlers started, with what they read
  gateLog,            \* history: the gate decisions
  catchLog,           \* history: the entries into handleRun's catch block
  metaLog,            \* history: the writes of 10-metadata.json
  calls,              \* history: the model invocations, in order
  dry                 \* argv.dry

runVars ==
  <<pc, base, base0, files, runIndex, runDir, currentStory, cycle, publishSuccess,
    failureReason, finalTitle, finalPublishedPath, invalid, trace, gateLog,
    catchLog, metaLog, calls, dry>>

\* ------------------------------------------------------ gate-only state

VARIABLES
  gCritiqueA, gCritiqueB, gRetellA, gRetellB,  \* the four documents of a gate call
  gResult,            \* the result of handleGate on them, once evaluated
  gEarlier,           \* the result of the evaluation before
  gPlan,              \* the gate field of the plan lying next to the documents
  gChanged            \* what changed since the evaluation before

gateVars ==
  <<gCritiqueA, gCritiqueB, gRetellA, gRetellB, gResult, gEarlier, gPlan, gChanged>>

\* ------------------------------------------- run directory claims, state

VARIABLES
  assigned,           \* history: the index of each run so far, and the base it found
  claimers,           \* concurrent determineNextRunDir calls: where each is, its locals
  overlapped          \* history: a call began while another was under way

dirVars == <<assigned, claimers, overlapped>>

\* --------------------------------------------------------- callModel state

VARIABLES
  request,            \* the ModelCall given to callModel
  clients,            \* the providers whose client handle is set
  sent,               \* history: the requests that reached a backend
  outcome,            \* what callModel returned or threw, once called
  built               \* history: the providers a client was constructed for

callVars == <<request, clients, sent, outcome, built>>

\* --------------------------------------------------------- parseJson state

VARIABLES
  pFence,             \* how the first response is fenced
  pBody,              \* the body of the first response
  pRetry,             \* the response to the retry, should there be one
  pParsed,            \* parseJson on the first response and on its body alone
  pPlan               \* what handleAggregate's call and retry came to

parseVars == <<pFence, pBody, pRetry, pParsed, pPlan>>

\* What handleRun's actions leave alone.
restVars == <<gateVars, dirVars, callVars, parseVars>>

\* handleRun's variables but pc and the base directory.
runRest ==
  <<files, runIndex, runDir, currentStory, cycle, publishSuccess, failureReason,
    finalTitle, finalPublishedPath, invalid, trace, gateLog, catchLog, metaLog,
    calls, dry>>

vars == <<runVars, restVars>>

\* ----------------------------------------------------------------- Init

\* Entries an output base directory may hold before the run: an earlier
\* published run, and stray files carrying the next index.
PriorRun == Name(1, "the-title", 1)

StrayFailed == Name(2, "failed", 1)

StrayFailed2 == Name(2, "failed", 2)

StraySlug == Name(2, "the-title", 1)

BaseDirs ==
  { [n \in S |-> IF n = PriorRun THEN "dir" ELSE "file"] :
      S \in { {}, {PriorRun}, {PriorRun, StrayFailed},
              {PriorRun, StrayFailed, StrayFailed2, StraySlug} } }

NoPath == [dir |-> NoDir, file |-> ""]

GateIdle ==
  /\ gCritiqueA = None
  /\ gCritiqueB = None
  /\ gRetellA = None
  /\ gRetellB = None
  /\ gResult = None
  /\ gEarlier = None
  /\ gPlan = None
  /\ gChanged = "none"

DirIdle ==
  /\ assigned = <<>>
  /\ claimers = <<>>
  /\ overlapped = FALSE

CallIdle ==
  /\ request = None
  /\ clients = {}
  /\ sent = <<>>
  /\ outcome = None
  /\ built = <<>>

ParseIdle ==
  /\ pFence = None
  /\ pBody = <<>>
  /\ pRetry = <<>>
  /\ pParsed = None
  /\ pPlan = None

\* handleRun is entered; argv.dry is set or not.
RunStart ==
  /\ pc = "init"
  /\ base \in BaseDirs
  /\ base0 = base
  /\ files = EmptyFiles
  /\ runIndex = 0
  /\ runDir = NoDir
  /\ currentStory = ""
  /\ cycle = 0
  /\ publishSuccess = FALSE
  /\ failureReason = "null"
  /\ finalTitle = ""
  /\ finalPublishedPath = NoPath
  /\ invalid = 0
  /\ trace = <<>>
  /\ gateLog = <<>>
  /\ catchLog = <<>>
  /\ metaLog = <<>>
  /\ calls = <<>>
  /\ GateIdle
  /\ DirIdle
  /\ CallIdle
  /\ ParseIdle

\* A run without --dry.
Init ==
  /\ RunStart
  /\ dry = FALSE

\* A run with or without --dry.
DryInit ==
  /\ RunStart
  /\ dry \in BOOLEAN

\* ------------------------------------------------------------- handleRun

Has(names) == names \subseteq DOMAIN files

\* The history entry of a stage handler starting: the story it is given, and
\* whether the artifacts it reads are there (ready).
Started(stage, story, ready) ==
  Append(trace, [stage |-> stage, cycle |-> cycle, story |-> story,
                 text |-> IF story \in DOMAIN files THEN files[story] ELSE None,
                 ready |-> ready])

\* The documents at paths are there and were made from the text at story.
MadeFrom(paths, story) ==
  /\ Has(paths \cup {story})
  /\ \A p \in paths : files[p].about = files[story]

\* Every cycle's revision written to the first cycle's file.
cycleRevisedPathFixed == RUN_FILE_NAMES.revised[1]

cycleRevisedPath == RUN_FILE_NAMES.revised[cycle]

\* The history entries of the model invocations a handler makes for target:
\* the outcome of each, whether the handler leaves the response's document
\* at target (fs: the files afterwards), and whether what the handler is to
\* find persisted by then (ready) is there.
Invoked(target, made, fs, ready) ==
  calls \o [i \in 1..Len(made) |->
             [target |-> target, cycle |-> cycle, attempt |-> i,
              response |-> made[i].t,
              written |-> /\ made[i].t \in {"valid", "text"}
                          /\ target \in DOMAIN fs
                          /\ made[i].doc \in {None, fs[target]},
              ready |-> ready]]

\* An error that leaves handleRun: the process ends with the rejection.
Crash ==
  /\ pc' = "crashed"
  /\ UNCHANGED <<base, runIndex, runDir, currentStory, cycle, publishSuccess,
                 failureReason, finalTitle, finalPublishedPath, gateLog,
                 catchLog, metaLog>>

\* const { index, dir } = await determineNextRunDir(baseOut)
Initialize ==
  /\ pc = "init"
  /\ LET r == determineNextRunDir(base)
     IN /\ base' = MakeDir(base, r.dir)
        /\ runIndex' = r.index
        /\ runDir' = r.dir
  /\ pc' = "draft"
  /\ UNCHANGED <<files, currentStory, cycle, publishSuccess, failureReason,
                 finalTitle, finalPublishedPath, invalid, trace, gateLog,
                 catchLog, metaLog>>
  /\ UNCHANGED <<base0, dry, calls, restVars>>

\* await handleDraft({...argv, out: draftPath}); let currentStory = draftPath
Draft ==
  /\ pc = "draft"
  /\ trace' = Started("draft", "", TRUE)
  /\ IF dry
     THEN /\ files' = files
          /\ calls' = calls
          /\ currentStory' = RUN_FILE_NAMES.draft
          /\ pc' = "loop"
          /\ UNCHANGED <<base, runIndex, runDir, cycle, publishSuccess,
                         failureReason, finalTitle, finalPublishedPath,
                         gateLog, catchLog, metaLog>>
     ELSE \E r \in {"text", "throw"} :
            /\ IF r = "text"
               THEN /\ files' = Put(files, RUN_FILE_NAMES.draft, StoryText("draft", 0))
                    /\ currentStory' = RUN_FILE_NAMES.draft
                    /\ pc' = "loop"
                    /\ UNCHANGED <<base, runIndex, runDir, cycle, publishSuccess,
                                   failureReason, finalTitle, finalPublishedPath,
                                   gateLog, catchLog, metaLog>>
               ELSE /\ files' = files
                    /\ Crash
            /\ calls' = Invoked(RUN_FILE_NAMES.draft, <<[t |-> r, doc |-> None]>>,
                                files', TRUE)
  /\ UNCHANGED invalid
  /\ UNCHANGED <<base0, dry, restVars>>

whileCondition(c) == c < maxCycles

\* while (cycle < maxCycles) { cycle++; ...
LoopHead ==
  /\ pc = "loop"
  /\ IF whileCondition(cycle)
     THEN /\ cycle' = cycle + 1
          /\ pc' = "critiqueA"
     ELSE /\ cycle' = cycle
          /\ pc' = "afterLoop"
  /\ UNCHANGED <<base, files, runIndex, runDir, currentStory, publishSuccess,
                 failureReason, finalTitle, finalPublishedPath, invalid, trace,
                 gateLog, catchLog, metaLog>>
  /\ UNCHANGED <<base0, dry, calls, restVars>>

\* One judge's (or the aggregator's) structured call inside a stage handler.
Structured(path, docs, next, ready) ==
  \E a1 \in Attempts(docs), a2 \in Attempts(docs) :
    /\ invalid + InvalidCount(a1, a2) <= MaxInvalid
    /\ invalid' = invalid + InvalidCount(a1, a2)
    /\ LET r == validatedCall(files, path, cycle, a1, a2)
       IN /\ files' = r.files
          /\ calls' = Invoked(path, r.made, r.files, ready)
          /\ IF r.ok
             THEN /\ pc' = next
                  /\ UNCHANGED <<base, runIndex, runDir, currentStory, cycle,
                                 publishSuccess, failureReason, finalTitle,
                                 finalPublishedPath, gateLog, catchLog, metaLog>>
             ELSE Crash

\* if (argv.dry) { ...; return; } in a handler that has read its input files:
\* no invocation, nothing written.
DrySkip(next) ==
  /\ files' = files
  /\ invalid' = invalid
  /\ calls' = calls
  /\ pc' = next
  /\ UNCHANGED <<base, runIndex, runDir, currentStory, cycle, publishSuccess,
                 failureReason, finalTitle, finalPublishedPath, gateLog, catchLog,
                 metaLog>>

\* A handler whose input file is missing: fs.readFile rejects.
Missing ==
  /\ files' = files
  /\ invalid' = invalid
  /\ calls' = calls
  /\ Crash

\* handleCritique, Judge A
CritiqueA ==
  /\ pc = "critiqueA"
  /\ trace' = Started("critique", currentStory, Has({currentStory}))
  /\ IF Has({currentStory})
     THEN IF dry
          THEN DrySkip("aggregate")
          ELSE Structured(RUN_FILE_NAMES.critiqueClaude,
                          {CritiqueDoc(c, files[currentStory]) : c \in JudgeCritiques},
                          "critiqueB", TRUE)
     ELSE Missing
  /\ UNCHANGED <<base0, dry, restVars>>

\* handleCritique, Judge B
CritiqueB ==
  /\ pc = "critiqueB"
  /\ trace' = trace
  /\ Structured(RUN_FILE_NAMES.critiqueDeepseek,
                {CritiqueDoc(c, files[currentStory]) : c \in JudgeCritiques},
                "aggregate",
                MadeFrom({RUN_FILE_NAMES.critiqueClaude}, currentStory))
  /\ UNCHANGED <<base0, dry, restVars>>

\* handleAggregate
Aggregate ==
  /\ pc = "aggregate"
  /\ trace' = Started("aggregate", currentStory,
                      MadeFrom({RUN_FILE_NAMES.critiqueClaude,
                                RUN_FILE_NAMES.critiqueDeepseek}, currentStory))
  /\ IF Has({currentStory, RUN_FILE_NAMES.critiqueClaude,
             RUN_FILE_NAMES.critiqueDeepseek})
     THEN IF dry
          THEN DrySkip("revise")
          ELSE Structured(RUN_FILE_NAMES.plan,
                          {PlanDoc(g, files[currentStory]) : g \in PlanGates},
                          "revise", TRUE)
     ELSE Missing
  /\ UNCHANGED <<base0, dry, restVars>>

\* handleRevise, writing 05-<cycle>-revised.md
Revise ==
  /\ pc = "revise"
  /\ trace' = Started("revise", currentStory,
                      MadeFrom({RUN_FILE_NAMES.plan}, currentStory))
  /\ IF Has({currentStory, RUN_FILE_NAMES.plan})
     THEN IF dry
          THEN DrySkip("retellA")
          ELSE \E r \in {"text", "throw"} :
                 /\ IF r = "text"
                    THEN /\ files' = Put(files, cycleRevisedPath,
                                         StoryText("revise", cycle))
                         /\ pc' = "retellA"
                         /\ UNCHANGED <<base, runIndex, runDir, currentStory, cycle,
                                        publishSuccess, failureReason, finalTitle,
                                        finalPublishedPath, gateLog, catchLog,
                                        metaLog>>
                    ELSE /\ files' = files
                         /\ Crash
                 /\ calls' = Invoked(cycleRevisedPath, <<[t |-> r, doc |-> None]>>,
                                     files', TRUE)
     ELSE /\ files' = files
          /\ calls' = calls
          /\ Crash
  /\ UNCHANGED invalid
  /\ UNCHANGED <<base0, dry, restVars>>

\* handleRetell, Judge A
RetellA ==
  /\ pc = "retellA"
  /\ trace' = Started("retell", cycleRevisedPath,
                      /\ Has({cycleRevisedPath})
                      /\ files[cycleRevisedPath] = StoryText("revise", cycle))
  /\ IF Has({cycleRevisedPath})
     THEN IF dry
          THEN DrySkip("gate")
          ELSE Structured(RUN_FILE_NAMES.retellClaude,
                          {RetellDoc(r, files[cycleRevisedPath]) : r \in JudgeARetells},
                          "retellB", TRUE)
     ELSE Missing
  /\ UNCHANGED <<base0, dry, restVars>>

\* handleRetell, Judge B
RetellB ==
  /\ pc = "retellB"
  /\ trace' = trace
  /\ Structured(RUN_FILE_NAMES.retellDeepseek,
                {RetellDoc(r, files[cycleRevisedPath]) : r \in JudgeRetells},
                "gate",
                MadeFrom({RUN_FILE_NAMES.retellClaude}, cycleRevisedPath))
  /\ UNCHANGED <<base0, dry, restVars>>

\* The catch block without the advance of currentStory.
catchBlockKeepsStory(cause, message) ==
  /\ catchLog' = Append(catchLog, [cycle |-> cycle, cause |-> cause])
  /\ currentStory' = currentStory
  /\ IF cycle < maxCycles
     THEN /\ failureReason' = failureReason
          /\ pc' = "loop"
     ELSE /\ failureReason' = message
          /\ pc' = "afterLoop"

\* } catch (err) { if (cycle < maxCycles) {...} else {...; break} }
catchBlock(cause, message) ==
  /\ catchLog' = Append(catchLog, [cycle |-> cycle, cause |-> cause])
  /\ IF cycle < maxCycles
     THEN /\ currentStory' = cycleRevisedPath
          /\ failureReason' = failureReason
          /\ pc' = "loop"
     ELSE /\ currentStory' = currentStory
          /\ failureReason' = message
          /\ pc' = "afterLoop"

GateInputs ==
  {RUN_FILE_NAMES.critiqueClaude, RUN_FILE_NAMES.critiqueDeepseek,
   RUN_FILE_NAMES.retellClaude, RUN_FILE_NAMES.retellDeepseek}

\* try { await handleGate({...argv, fromRun: true, ...})
Gate ==
  /\ pc = "gate"
  /\ trace' = Started("gate", "",
                      MadeFrom({RUN_FILE_NAMES.retellClaude,
                                RUN_FILE_NAMES.retellDeepseek}, cycleRevisedPath))
  /\ IF Has(GateInputs)
     THEN LET g == handleGate(files[RUN_FILE_NAMES.critiqueClaude],
                              files[RUN_FILE_NAMES.critiqueDeepseek],
                              files[RUN_FILE_NAMES.retellClaude],
                              files[RUN_FILE_NAMES.retellDeepseek])
          IN /\ gateLog' = Append(gateLog, [cycle |-> cycle, publish |-> g.publish])
             /\ IF g.publish
                THEN /\ pc' = "title"
                     /\ UNCHANGED <<currentStory, failureReason, catchLog>>
                ELSE catchBlock("gate", "Gate failed")
     ELSE /\ gateLog' = gateLog
          /\ catchBlock("read", "ENOENT")
  /\ UNCHANGED <<base, files, runIndex, runDir, cycle, publishSuccess, finalTitle,
                 finalPublishedPath, invalid, metaLog>>
  /\ UNCHANGED <<base0, dry, calls, restVars>>

\* finalTitle = await generateTitle(storyContent, argv)
Title ==
  /\ pc = "title"
  /\ \E r \in Titles \cup {"throw"} :
       /\ calls' = Invoked(RUN_FILE_NAMES.title,
                           <<[t |-> IF r = "throw" THEN r ELSE "text", doc |-> None]>>,
                           EmptyFiles, TRUE)
       /\ IF r = "throw"
          THEN /\ finalTitle' = finalTitle
               /\ catchBlock("title", "model error")
          ELSE /\ finalTitle' = r
               /\ pc' = "publish"
               /\ UNCHANGED <<currentStory, failureReason, catchLog>>
  /\ UNCHANGED <<base, files, runIndex, runDir, cycle, publishSuccess,
                 finalPublishedPath, invalid, trace, gateLog, metaLog>>
  /\ UNCHANGED <<base0, dry, restVars>>

PublishedMetadata ==
  [kind |-> "metadata", run_index |-> runIndex, title |-> finalTitle,
   published |-> TRUE, reason |-> "absent"]

FailedMetadata ==
  [kind |-> "metadata", run_index |-> runIndex, title |-> "null",
   published |-> FALSE, reason |-> failureReason]

\* The steps of the publication that touch the file system, in order.
PublishSteps == <<"published", "title", "metadata", "rename">>

StepIndex(step) == CHOOSE i \in 1..Len(PublishSteps) : PublishSteps[i] = step

\* The three artifact writes, as far as they got before step failAt failed.
publishWrites(fs, failAt) ==
  LET done(step) == failAt = "none" \/ StepIndex(step) < StepIndex(failAt)
      f1 == IF done("published")
            THEN Put(fs, RUN_FILE_NAMES.published,
                     [kind |-> "published", title |-> finalTitle,
                      story |-> fs[cycleRevisedPath]])
            ELSE fs
      f2 == IF done("title")
            THEN Put(f1, RUN_FILE_NAMES.title, [kind |-> "title", title |-> finalTitle])
            ELSE f1
  IN IF done("metadata") THEN Put(f2, RUN_FILE_NAMES.metadata, PublishedMetadata) ELSE f2

\* The rest of the try block: the artifacts, the metadata, the rename.
Publish ==
  /\ pc = "publish"
  /\ \E failAt \in {"none", "published", "title", "metadata", "rename"} :
       /\ files' = publishWrites(files, failAt)
       /\ metaLog' = IF failAt \in {"none", "rename"}
                     THEN Append(metaLog, "published")
                     ELSE metaLog
       /\ IF failAt = "none"
          THEN LET targetDir ==
                     renameTarget(base, runDir, runIndex, titleSlug(finalTitle), 1)
               IN /\ base' = IF targetDir # runDir
                             THEN Rename(base, runDir, targetDir)
                             ELSE base
                  /\ runDir' = targetDir
                  /\ finalPublishedPath' =
                       IF targetDir # runDir
                       THEN [dir |-> targetDir, file |-> "published.md"]
                       ELSE [dir |-> runDir, file |-> RUN_FILE_NAMES.published]
                  /\ publishSuccess' = TRUE
                  /\ pc' = "afterLoop"
                  /\ UNCHANGED <<currentStory, failureReason, catchLog>>
          ELSE /\ finalPublishedPath' =
                    [dir |-> runDir, file |-> RUN_FILE_NAMES.published]
               /\ catchBlock(failAt, "fs error")
               /\ UNCHANGED <<base, runDir, publishSuccess>>
  /\ UNCHANGED <<runIndex, cycle, finalTitle, invalid, trace, gateLog>>
  /\ UNCHANGED <<base0, dry, calls, restVars>>

\* if (!publishSuccess) { rename to <NNN>_failed, write the metadata, exit(1) }
AfterLoop ==
  /\ pc = "afterLoop"
  /\ IF ~publishSuccess
     THEN LET failedDir == renameTarget(base, runDir, runIndex, "failed", 1)
          IN /\ base' = IF failedDir # runDir
                        THEN Rename(base, runDir, failedDir)
                        ELSE base
             /\ runDir' = failedDir
             /\ files' = Put(files, RUN_FILE_NAMES.metadata, FailedMetadata)
             /\ metaLog' = Append(metaLog, "failed")
             /\ pc' = "failed"
     ELSE /\ pc' = "published"
          /\ UNCHANGED <<base, runDir, files, metaLog>>
  /\ UNCHANGED <<runIndex, currentStory, cycle, publishSuccess, failureReason,
                 finalTitle, finalPublishedPath, invalid, trace, gateLog, catchLog>>
  /\ UNCHANGED <<base0, dry, calls, restVars>>

Next ==
  \/ Initialize
  \/ Draft
  \/ LoopHead
  \/ CritiqueA
  \/ CritiqueB
  \/ Aggregate
  \/ Revise
  \/ RetellA
  \/ RetellB
  \/ Gate
  \/ Title
  \/ Publish
  \/ AfterLoop

Spec == Init /\ [][Next]_vars

SpecDry == DryInit /\ [][Next]_vars

\* Every model invocation and file operation returns: a step that handleRun
\* can take is taken.
SpecReturns == Init /\ [][Next]_vars /\ WF_vars(Next)

\* ------------------------------------------------- the gate on its own

\* Ratings a judge may give: 0, 1, 1.5 and 3 points.
RatingVals == {RatingMin * Scale, Scale, (3 * Scale) \div 2, RatingMax * Scale}

ConfusionLens == {0, MaxConfusionList - 1, MaxConfusionList}

\* Pairs of ratings records in which at least one judge rates all four
\* dimensions alike.
GateRatingPairs ==
  {<<a, Uniform(v)>> : a \in [Dims -> RatingVals], v \in RatingVals}
    \cup {<<Uniform(v), b>> : b \in [Dims -> RatingVals], v \in RatingVals}

\* Gate fields a plan may carry: the one of the run's plans, one that asks
\* for nothing, one that asks for full marks and no confusion.
GatePlanFields ==
  PlanGates
    \cup { [min_avg_scores |-> Uniform(RatingMin * Scale),
            max_confusions |-> 2 * MaxConfusionList],
           [min_avg_scores |-> Uniform(RatingMax * Scale), max_confusions |-> 0] }

\* Identical retells, retells equal up to case and outer blanks, unrelated ones.
GateRetellPairs ==
  { <<<<"a", "b">>, <<"a", "b">>>>,
    <<<<" ", "A", "b">>, <<"a", "B", " ">>>>,
    <<<<"a", "b">>, <<"b", " ", "a">>>> }

RunIdle ==
  /\ pc = "idle"
  /\ base = [n \in {} |-> "dir"]
  /\ base0 = base
  /\ files = EmptyFiles
  /\ runIndex = 0
  /\ runDir = NoDir
  /\ currentStory = ""
  /\ cycle = 0
  /\ publishSuccess = FALSE
  /\ failureReason = "null"
  /\ finalTitle = ""
  /\ finalPublishedPath = NoPath
  /\ invalid = 0
  /\ trace = <<>>
  /\ gateLog = <<>>
  /\ catchLog = <<>>
  /\ metaLog = <<>>
  /\ calls = <<>>
  /\ dry = FALSE

GateInit ==
  /\ RunIdle
  /\ \E rp \in GateRatingPairs, ca \in ConfusionLens, cb \in ConfusionLens :
       /\ gCritiqueA = [ratings |-> rp[1], confusions |-> Confusions(ca)]
       /\ gCritiqueB = [ratings |-> rp[2], confusions |-> Confusions(cb)]
  /\ \E tp \in GateRetellPairs :
       /\ gRetellA = [retell |-> tp[1]]
       /\ gRetellB = [retell |-> tp[2]]
  /\ gResult = None
  /\ gEarlier = None
  /\ gPlan \in PlanGates
  /\ gChanged = "none"
  /\ DirIdle
  /\ CallIdle
  /\ ParseIdle

\* The evaluation with the thresholds taken from the plan's gate field.
GateEvaluateWithPlan ==
  /\ gResult = None
  /\ gResult' =
       LET g == handleGate(gCritiqueA, gCritiqueB, gRetellA, gRetellB)
       IN [g EXCEPT !.publish =
             /\ \A d \in Dims : g.avgRatings[d] >= gPlan.min_avg_scores[d]
             /\ g.totalConfusions <= gPlan.max_confusions]
  /\ UNCHANGED <<gCritiqueA, gCritiqueB, gRetellA, gRetellB, gEarlier, gPlan, gChanged>>
  /\ UNCHANGED <<runVars, dirVars, callVars, parseVars>>

\* The evaluation with a decision that remembers an earlier rejection.
GateEvaluateWithMemory ==
  /\ gResult = None
  /\ gResult' =
       LET g == handleGate(gCritiqueA, gCritiqueB, gRetellA, gRetellB)
       IN [g EXCEPT !.publish = @ /\ gEarlier = None]
  /\ UNCHANGED <<gCritiqueA, gCritiqueB, gRetellA, gRetellB, gEarlier, gPlan, gChanged>>
  /\ UNCHANGED <<runVars, dirVars, callVars, parseVars>>

\* handleGate on the four documents (the standalone gate command).
GateEvaluate ==
  /\ gResult = None
  /\ gResult' = handleGate(gCritiqueA, gCritiqueB, gRetellA, gRetellB)
  /\ UNCHANGED <<gCritiqueA, gCritiqueB, gRetellA, gRetellB, gEarlier, gPlan, gChanged>>
  /\ UNCHANGED <<runVars, dirVars, callVars, parseVars>>

\* The same critiques are gated again with other retell files.
GateOtherRetells ==
  /\ gResult # None
  /\ gEarlier = None
  /\ \E tp \in GateRetellPairs :
       /\ gRetellA' = [retell |-> tp[1]]
       /\ gRetellB' = [retell |-> tp[2]]
  /\ gEarlier' = gResult
  /\ gResult' = None
  /\ gChanged' = "retells"
  /\ UNCHANGED <<gCritiqueA, gCritiqueB, gPlan>>
  /\ UNCHANGED <<runVars, dirVars, callVars, parseVars>>

\* The same four documents are gated again next to a plan with another gate
\* field.
GateOtherPlan ==
  /\ gResult # None
  /\ gEarlier = None
  /\ \E g \in GatePlanFields \ {gPlan} : gPlan' = g
  /\ gEarlier' = gResult
  /\ gResult' = None
  /\ gChanged' = "plan"
  /\ UNCHANGED <<gCritiqueA, gCritiqueB, gRetellA, gRetellB>>
  /\ UNCHANGED <<runVars, dirVars, callVars, parseVars>>

\* The same four documents are gated again, as in the next cycle of a run
\* whose judges answered alike.
GateAgain ==
  /\ gResult # None
  /\ gEarlier = None
  /\ gEarlier' = gResult
  /\ gResult' = None
  /\ gChanged' = "nothing"
  /\ UNCHANGED <<gCritiqueA, gCritiqueB, gRetellA, gRetellB, gPlan>>
  /\ UNCHANGED <<runVars, dirVars, callVars, parseVars>>

GateNext ==
  \/ GateEvaluate
  \/ GateOtherRetells
  \/ GateOtherPlan
  \/ GateAgain

SpecGate == GateInit /\ [][GateNext]_vars

\* ------------------------------------------------------ sequential runs

\* Base directories a run may find: empty; the directories 001_foo and
\* 002_failed; 002_failed alone (001 deleted); a directory and a file with a
\* higher prefix; the 998th and the 999th run's directories.
RunsBaseDirs ==
  { [n \in {} |-> "dir"],
    [n \in {Name(1, "foo", 1), Name(2, "failed", 1)} |-> "dir"],
    [n \in {Name(2, "failed", 1)} |-> "dir"],
    [n \in {Name(1, "foo", 1), Name(5, "notes", 1)} |->
       IF n.index = 1 THEN "dir" ELSE "file"],
    [n \in {Name(1, "foo", 1), PlainDir(2)} |->
       IF n.index = 1 THEN "dir" ELSE "file"],
    [n \in {Name(998, "the-title", 1)} |-> "dir"],
    [n \in {Name(999, "failed", 1)} |-> "dir"] }

\* The run directory as the run leaves it: renamed <NNN>_<slug> when it
\* published, <NNN>_failed when it failed, the plain <NNN> when it aborted.
runLeaves(b, end) ==
  LET r == determineNextRunDir(b)
      b1 == MakeDir(b, r.dir)
  IN CASE end = "published" ->
            Rename(b1, r.dir, renameTarget(b1, r.dir, r.index, titleSlug("The Title"), 1))
       [] end = "failed" ->
            Rename(b1, r.dir, renameTarget(b1, r.dir, r.index, "failed", 1))
       [] OTHER -> b1

RunsInit ==
  /\ pc = "runs"
  /\ base \in RunsBaseDirs
  /\ base0 = base
  /\ files = EmptyFiles
  /\ runIndex = 0
  /\ runDir = NoDir
  /\ currentStory = ""
  /\ cycle = 0
  /\ publishSuccess = FALSE
  /\ failureReason = "null"
  /\ finalTitle = ""
  /\ finalPublishedPath = NoPath
  /\ invalid = 0
  /\ trace = <<>>
  /\ gateLog = <<>>
  /\ catchLog = <<>>
  /\ metaLog = <<>>
  /\ calls = <<>>
  /\ dry = FALSE
  /\ GateIdle
  /\ DirIdle
  /\ CallIdle
  /\ ParseIdle

\* One whole run against the base directory, as far as the directory goes.
RunOnce(end) ==
  /\ pc = "runs"
  /\ Len(assigned) < MaxRuns
  /\ assigned' = Append(assigned,
                        [index |-> determineNextRunDir(base).index, before |-> base,
                         after |-> MakeDir(base, determineNextRunDir(base).dir)])
  /\ base' = runLeaves(base, end)
  /\ UNCHANGED <<pc, base0, runRest, gateVars, claimers, overlapped, callVars, parseVars>>

RunPublished == RunOnce("published")

RunFailed == RunOnce("failed")

RunAborted == RunOnce("aborted")

RunsNext ==
  \/ RunPublished
  \/ RunFailed
  \/ RunAborted

SpecRuns == RunsInit /\ [][RunsNext]_vars

\* ---------------------------------------------------- concurrent claims

Procs == 1..MaxProcs

\* The runs' determineNextRunDir calls, none begun yet.
ClaimsInit ==
  /\ pc = "claims"
  /\ base \in RunsBaseDirs
  /\ base0 = base
  /\ files = EmptyFiles
  /\ runIndex = 0
  /\ runDir = NoDir
  /\ currentStory = ""
  /\ cycle = 0
  /\ publishSuccess = FALSE
  /\ failureReason = "null"
  /\ finalTitle = ""
  /\ finalPublishedPath = NoPath
  /\ invalid = 0
  /\ trace = <<>>
  /\ gateLog = <<>>
  /\ catchLog = <<>>
  /\ metaLog = <<>>
  /\ calls = <<>>
  /\ dry = FALSE
  /\ GateIdle
  /\ CallIdle
  /\ ParseIdle
  /\ assigned = <<>>
  /\ claimers = [p \in Procs |-> [pc |-> "start", next |-> 0, dir |-> NoDir]]
  /\ overlapped = FALSE

\* readdir and the stat loop: let next = maxIndex + 1
ClaimScan(p) ==
  /\ claimers[p].pc = "start"
  /\ claimers' = [claimers EXCEPT ![p] =
                    [pc |-> "check", next |-> scanMaxIndex(base) + 1, dir |-> NoDir]]
  /\ overlapped' = (overlapped
                      \/ \E q \in Procs \ {p} : claimers[q].pc \in {"check", "create"})
  /\ UNCHANGED <<runVars, gateVars, assigned, callVars, parseVars>>

\* if (!(await fs.pathExists(candidate))) ... else next++
ClaimCheck(p) ==
  /\ claimers[p].pc = "check"
  /\ claimers' = [claimers EXCEPT ![p] =
                    IF PlainDir(@.next) \in DOMAIN base
                    THEN [@ EXCEPT !.next = @ + 1]
                    ELSE [@ EXCEPT !.pc = "create"]]
  /\ UNCHANGED <<runVars, gateVars, assigned, overlapped, callVars, parseVars>>

\* await fs.ensureDir(candidate); return { index, dir: candidate }
ClaimCreate(p) ==
  /\ claimers[p].pc = "create"
  /\ base' = MakeDir(base, PlainDir(claimers[p].next))
  /\ claimers' = [claimers EXCEPT ![p] =
                    [pc |-> "done", next |-> @.next, dir |-> PlainDir(@.next)]]
  /\ UNCHANGED <<pc, base0, runRest, gateVars, assigned, overlapped, callVars, parseVars>>

ClaimsNext ==
  \/ \E p \in Procs : ClaimScan(p)
  \/ \E p \in Procs : ClaimCheck(p)
  \/ \E p \in Procs : ClaimCreate(p)

SpecClaims == ClaimsInit /\ [][ClaimsNext]_vars

\* ------------------------------------------------- callModel on its own

RECURSIVE SeqsUpTo(_, _)
SeqsUpTo(S, n) ==
  IF n = 0
  THEN {<<>>}
  ELSE LET shorter == SeqsUpTo(S, n - 1)
       IN shorter \cup {Append(q, x) : q \in shorter, x \in S}

ModelIds == SeqsUpTo(IdTokens, MaxIdLen) \ {<<>>}

\* Requested temperatures: 0, 0.4, the default 0.7, and 1.
Temperatures == {0, (4 * Scale) \div 10, (7 * Scale) \div 10, Scale}

\* The calls callModel is given: any model at any temperature and response
\* kind, and the first attempts and retries of the judges and the aggregator.
ModelCalls ==
  [model : ModelIds, userPrompt : {attemptPrompt(1)}, temperature : Temperatures,
   responseFormat : {"text", "json"}]
    \cup {judgeCall(m, k) : m \in ModelIds, k \in 1..2}
    \cup {aggregateCall(m, k) : m \in ModelIds, k \in 1..2}

\* What a backend answers: a text, or the request rejecting.
Replies == { [kind |-> "text"], [kind |-> "error", message |-> "backend"] }

CallInit ==
  /\ pc = "call"
  /\ base = [n \in {} |-> "dir"]
  /\ base0 = base
  /\ files = EmptyFiles
  /\ runIndex = 0
  /\ runDir = NoDir
  /\ currentStory = ""
  /\ cycle = 0
  /\ publishSuccess = FALSE
  /\ failureReason = "null"
  /\ finalTitle = ""
  /\ finalPublishedPath = NoPath
  /\ invalid = 0
  /\ trace = <<>>
  /\ gateLog = <<>>
  /\ catchLog = <<>>
  /\ metaLog = <<>>
  /\ calls = <<>>
  /\ dry = FALSE
  /\ GateIdle
  /\ DirIdle
  /\ request \in ModelCalls
  /\ clients = {}
  /\ sent = <<>>
  /\ outcome = None
  /\ built = <<>>
  /\ ParseIdle

\* export async function callModel(call: ModelCall)
CallModel ==
  /\ pc = "call"
  /\ outcome = None
  /\ \E reply \in Replies :
       LET r == callModel(request, clients, reply)
       IN /\ clients' = r.clients
          /\ sent' = sent \o r.sent
          /\ outcome' = r.outcome
          /\ built' = built \o r.built
  /\ UNCHANGED <<runVars, gateVars, dirVars, request, parseVars>>

CallNext == CallModel

SpecCall == CallInit /\ [][CallNext]_vars

\* ------------------------------------------- callModel, call after call

\* The calls of one process: models of each provider, and an unknown one.
ProcessCalls ==
  {judgeCall(m, 1) : m \in {<<"openai", "/", "x">>, <<"openai", "/", "gpt-5">>,
                            <<"anthropic", "/", "x">>, <<"openrouter", "/", "x">>,
                            <<"x", "/", "x">>}}

\* The module is loaded: no client handle is set.
CallsInit ==
  /\ RunIdle
  /\ GateIdle
  /\ DirIdle
  /\ CallIdle
  /\ ParseIdle

\* One more call of callModel in the same process.
CallModelAgain ==
  /\ Len(sent) < MaxCalls
  /\ \E call \in ProcessCalls, reply \in Replies :
       LET r == callModel(call, clients, reply)
       IN /\ request' = call
          /\ clients' = r.clients
          /\ sent' = sent \o r.sent
          /\ outcome' = r.outcome
          /\ built' = built \o r.built
  /\ UNCHANGED <<runVars, gateVars, dirVars, parseVars>>

CallsNext == CallModelAgain

SpecCalls == CallsInit /\ [][CallsNext]_vars

\* ------------------------------------------------- parseJson on its own

PlanText(n) == <<"{">> \o [i \in 1..n |-> "item"] \o <<"}">>

\* Bodies of a response: a plan with 0..MaxPlanEntries entries, a plan cut
\* short, prose.
Bodies == {PlanText(n) : n \in 0..MaxPlanEntries} \cup {<<"{", "item">>, <<"x">>}

\* The language tags after an opening fence: none, json, others.
Tags == {<<>>, <<"json">>, <<"JSON">>, <<"js">>, <<"json", "5">>}

\* Fence forms: no fence, or a fence with a tag, with or without white space
\* around the whole.
Fences ==
  {[fenced |-> FALSE, tag |-> <<>>, pad |-> <<>>]}
    \cup [fenced : {TRUE}, tag : Tags, pad : {<<>>, <<" ">>}]

fenced(fence, body) ==
  IF fence.fenced
  THEN fence.pad \o <<"fence">> \o fence.tag \o <<" ">> \o body \o <<" ", "fence">>
         \o fence.pad
  ELSE body

ParseInit ==
  /\ RunIdle
  /\ GateIdle
  /\ DirIdle
  /\ CallIdle
  /\ pFence \in Fences
  /\ pBody \in Bodies
  /\ pRetry \in Bodies
  /\ pParsed = None
  /\ pPlan = None

\* parseJson on the first response, and on its body without the fence.
ParseJson ==
  /\ pParsed = None
  /\ pParsed' = [wrapped |-> parseJson(fenced(pFence, pBody)),
                 plain |-> parseJson(pBody)]
  /\ UNCHANGED <<pFence, pBody, pRetry, pPlan>>
  /\ UNCHANGED <<runVars, gateVars, dirVars, callVars>>

\* handleAggregate's call, parseJson and write, and its one retry.
AggregatePlan ==
  /\ pPlan = None
  /\ pPlan' = validatedCall(EmptyFiles, RUN_FILE_NAMES.plan, 1,
                            planAttempt(fenced(pFence, pBody)), planAttempt(pRetry))
  /\ UNCHANGED <<pFence, pBody, pRetry, pParsed>>
  /\ UNCHANGED <<runVars, gateVars, dirVars, callVars>>

ParseNext ==
  \/ ParseJson
  \/ AggregatePlan

SpecParse == ParseInit /\ [][ParseNext]_vars

\* ------------------------------------------------------------ properties

Terminal == pc \in {"published", "failed", "crashed"}

\* The cycle bodies started: handleCritique is the first stage of each.
BodiesStarted == Cardinality({i \in DOMAIN trace : trace[i].stage = "critique"})

AllGatesRejected ==
  /\ gateLog # <<>>
  /\ Len(gateLog) = BodiesStarted
  /\ \A i \in DOMAIN gateLog : ~gateLog[i].publish

SumOf(d) == gCritiqueA.ratings[d] + gCritiqueB.ratings[d]

ConfusionsOf == Len(gCritiqueA.confusions) + Len(gCritiqueB.confusions)

Unrelated(a, b) == a = <<"a", "b">> /\ b = <<"b", " ", "a">>

MetadataWrittenOnce ==
  /\ Len(metaLog) <= 1
  /\ pc \in {"published", "failed"} => Len(metaLog) = 1

\* C5: a run that claimed a run directory and did not publish ends FAILED with
\* a failure metadata record, with a reason, in the run directory.
AbortLeavesRecord ==
  (Terminal /\ runDir # NoDir /\ ~publishSuccess) =>
    /\ pc = "failed"
    /\ RUN_FILE_NAMES.metadata \in DOMAIN files
    /\ ~files[RUN_FILE_NAMES.metadata].published
    /\ files[RUN_FILE_NAMES.metadata].reason \notin {"null", "absent"}

\* C6: after a gate that passed in cycle n no stage of a later cycle is started.
PassEndsCycles ==
  \A i \in DOMAIN gateLog :
    gateLog[i].publish => \A j \in DOMAIN trace : trace[j].cycle <= gateLog[i].cycle

\* C7: handleRun's catch block (advance to the next cycle, or end FAILED at the
\* cap) is entered only by a gate rejection.
OnlyRejectionCaught == \A i \in DOMAIN catchLog : catchLog[i].cause = "gate"

LastGateRejectedAtCap ==
  /\ gateLog # <<>>
  /\ gateLog[Len(gateLog)].cycle = 2
  /\ ~gateLog[Len(gateLog)].publish

ReadsStory(e) == e.stage \in {"critique", "aggregate", "revise"}

\* C9: critique, aggregate and revise read 01-draft.md, the initial draft, in
\* cycle 1 and, when the gate rejected in cycle 1, 05-01-revised.md, the
\* revision written in cycle 1, in cycle 2.
StoryAdvances ==
  \A i \in DOMAIN trace :
    ReadsStory(trace[i]) =>
      /\ trace[i].cycle = 1 =>
           /\ trace[i].story = "01-draft.md"
           /\ trace[i].text = StoryText("draft", 0)
      /\ (trace[i].cycle = 2 /\ ~gateLog[1].publish) =>
           /\ trace[i].story = "05-01-revised.md"
           /\ trace[i].text = StoryText("revise", 1)

StoryAdvancesWitness ==
  /\ gateLog # <<>>
  /\ ~gateLog[1].publish
  /\ \E i \in DOMAIN trace : trace[i].stage = "revise" /\ trace[i].cycle = 2

\* The stage that may start after stage s of cycle c, with its cycle.
Follows(e, f) ==
  \/ e.stage = "draft" /\ f.stage = "critique" /\ f.cycle = 1
  \/ e.stage = "critique" /\ f.stage = "aggregate" /\ f.cycle = e.cycle
  \/ e.stage = "aggregate" /\ f.stage = "revise" /\ f.cycle = e.cycle
  \/ e.stage = "revise" /\ f.stage = "retell" /\ f.cycle = e.cycle
  \/ e.stage = "retell" /\ f.stage = "gate" /\ f.cycle = e.cycle
  \/ e.stage = "gate" /\ f.stage = "critique" /\ f.cycle = e.cycle + 1

\* C10: the stages start in the order draft (once, first), then per cycle
\* critique, aggregate, revise, retell, gate, and each stage starts with the
\* artifacts of the stage before it written.
StagesInOrder ==
  /\ \A i \in DOMAIN trace : (trace[i].stage = "draft") <=> (i = 1)
  /\ \A i \in DOMAIN trace : i < Len(trace) => Follows(trace[i], trace[i + 1])
  /\ \A i \in DOMAIN trace : trace[i].ready
  /\ pc \notin {"init", "draft"} => trace # <<>>

StagesInOrderWitness ==
  /\ pc = "published"
  /\ Len(trace) = 11
  /\ invalid = 1

\* The second judge's artifacts, and the first judge's artifact of the same stage.
JudgeBTargets == {RUN_FILE_NAMES.critiqueDeepseek, RUN_FILE_NAMES.retellDeepseek}

JudgeAOf(target) ==
  IF target = RUN_FILE_NAMES.critiqueDeepseek
  THEN RUN_FILE_NAMES.critiqueClaude
  ELSE RUN_FILE_NAMES.retellClaude

\* C11: whenever Judge B is invoked, Judge A has been invoked earlier in the
\* same cycle with its validated document written, and that document is in
\* the run directory, made from the story of the stage; whenever the
\* aggregation or the gate starts, both judges' documents of the cycle are
\* there.
JudgeAPersistedFirst ==
  /\ \A i \in DOMAIN calls :
       calls[i].target \in JudgeBTargets =>
         /\ calls[i].ready
         /\ \E j \in 1..(i - 1) :
              /\ calls[j].target = JudgeAOf(calls[i].target)
              /\ calls[j].cycle = calls[i].cycle
              /\ calls[j].written
  /\ \A i \in DOMAIN trace :
       trace[i].stage \in {"aggregate", "gate"} => trace[i].ready

JudgeAPersistedFirstWitness ==
  /\ \E i \in DOMAIN trace : trace[i].stage = "gate" /\ trace[i].cycle = 2
  /\ \E i \in DOMAIN calls :
       /\ calls[i].target = RUN_FILE_NAMES.retellDeepseek
       /\ calls[i].cycle = 2
       /\ calls[i].attempt = 2
  /\ \E i \in DOMAIN calls :
       /\ calls[i].target = RUN_FILE_NAMES.critiqueDeepseek
       /\ calls[i].cycle = 1

\* Two history entries of one validated call.
SameCall(e, f) == e.target = f.target /\ e.cycle = f.cycle

BothRawKept ==
  \A i \in DOMAIN calls :
    (/\ calls[i].attempt = 2
     /\ calls[i].response = "invalid"
     /\ calls[i - 1].response = "invalid")
      => \A k \in {1, 2} :
           \E f \in DOMAIN files :
             files[f] = [kind |-> "raw", of |-> calls[i].target,
                         cycle |-> calls[i].cycle, attempt |-> k]

\* C14: once the critique stage (the retell stage) has started on its story,
\* Judge B is invoked in it, whatever became of Judge A.
JudgeBAlwaysInvoked ==
  Terminal =>
    \A i \in DOMAIN trace :
      (trace[i].stage \in {"critique", "retell"} /\ trace[i].ready) =>
        \E j \in DOMAIN calls :
          /\ calls[j].cycle = trace[i].cycle
          /\ calls[j].target = IF trace[i].stage = "critique"
                               THEN RUN_FILE_NAMES.critiqueDeepseek
                               ELSE RUN_FILE_NAMES.retellDeepseek

\* C15: a second invocation of a validated call follows only a first response
\* that failed to parse or to validate.
RetryOnlyAfterInvalid ==
  \A i \in DOMAIN calls :
    calls[i].attempt = 2 => calls[i - 1].response = "invalid"

\* The highest index among the run directories of a base directory, 0 if none.
HighestIndex(b) == SetMax({n.index : n \in {m \in DOMAIN b : b[m] = "dir"}})

\* C16: each run is given the index one above the highest index among the
\* run directories it finds, 1 when it finds none.
NextIndexIsMaxPlusOne ==
  \A i \in DOMAIN assigned :
    assigned[i].index = HighestIndex(assigned[i].before) + 1

\* C17: every run's index is strictly greater than the index of every
\* earlier run against the same base directory.
IndexStrictlyIncreasing ==
  \A i, j \in DOMAIN assigned :
    i < j => assigned[i].index < assigned[j].index

FirstSlash(id) ==
  IF \E i \in DOMAIN id : id[i] = "/"
  THEN CHOOSE i \in DOMAIN id : id[i] = "/" /\ \A j \in 1..(i - 1) : id[j] # "/"
  ELSE Len(id) + 1

FirstSegment(id) == SubSeq(id, 1, FirstSlash(id) - 1)

Remainder(id) == SubSeq(id, FirstSlash(id) + 1, Len(id))

\* C19: a call whose identifier's first segment is openai, anthropic or
\* openrouter sends one request, to that provider's backend, with all that
\* follows the first "/" as the model name; any other call sends nothing,
\* sets no client handle, and fails with an error naming the segment and the
\* three accepted prefixes.
DispatchByFirstSegment ==
  outcome # None =>
    IF FirstSegment(request.model) \in {<<"openai">>, <<"anthropic">>, <<"openrouter">>}
    THEN /\ Len(sent) = 1
         /\ <<sent[1].backend>> = FirstSegment(request.model)
         /\ sent[1].model = Remainder(request.model)
         /\ clients = {sent[1].backend}
    ELSE /\ sent = <<>>
         /\ clients = {}
         /\ outcome.kind = "error"
         /\ outcome.message = "Unknown provider"
         /\ outcome.provider = FirstSegment(request.model)
         /\ outcome.format =
              {<<"openai", "/">>, <<"anthropic", "/">>, <<"openrouter", "/">>}

DispatchByFirstSegmentWitness ==
  /\ request # None
  /\ request.model = <<"openrouter", "/", "x", "/", "gpt-5">>
  /\ outcome = [kind |-> "text"]
  /\ sent = <<[backend |-> "openrouter", model |-> <<"x", "/", "gpt-5">>,
               temperature |-> request.temperature]>>
  /\ request.responseFormat = "text"

\* C20 (as stated): whenever the model name of a call begins with gpt-5, the
\* temperature sent to the backend is 1.
Gpt5ForcesOne ==
  (sent # <<>> /\ startsWithGpt5(Remainder(request.model)))
    => sent[1].temperature = Scale

\* C20 (amended): whenever the provider of a call is openai and its model
\* name begins with gpt-5, the temperature sent to the backend is 1.
OpenAIGpt5ForcesOne ==
  (/\ sent # <<>>
   /\ FirstSegment(request.model) = <<"openai">>
   /\ startsWithGpt5(Remainder(request.model)))
    => sent[1].temperature = Scale

OpenAIGpt5ForcesOneWitness ==
  /\ request # None
  /\ request.model = <<"openai", "/", "gpt-5", "x">>
  /\ request.temperature = (7 * Scale) \div 10
  /\ sent # <<>>
  /\ sent[1].temperature = Scale

\* The call is one a judge makes, first attempt or retry.
IsJudgeCall == request # None /\ \E k \in 1..2 : request = judgeCall(request.model, k)

\* The call is one handleAggregate makes, first attempt or retry.
IsAggregateCall ==
  request # None /\ \E k \in 1..2 : request = aggregateCall(request.model, k)

\* The provider is openai and the model name begins with gpt-5.
OpenAIGpt5 ==
  /\ FirstSegment(request.model) = <<"openai">>
  /\ startsWithGpt5(Remainder(request.model))

PublishOnlyIfStrict ==
  (gResult # None /\ gResult.publish) =>
    /\ \A d \in Dims : 2 * gResult.avgRatings[d] >= 5 * Scale
    /\ gResult.totalConfusions <= 2
    /\ Trim(gRetellA.retell) = Trim(gRetellB.retell)

DraftPaths == {RUN_FILE_NAMES.draft} \cup {RUN_FILE_NAMES.revised[c] : c \in 1..maxCycles}

\* What the one write of a draft file puts there.
DraftOf(p) ==
  IF p = RUN_FILE_NAMES.draft
  THEN StoryText("draft", 0)
  ELSE StoryText("revise", CHOOSE c \in 1..maxCycles : RUN_FILE_NAMES.revised[c] = p)

TextsWrittenTo(p) ==
  {i \in DOMAIN calls : calls[i].target = p /\ calls[i].response = "text"}

\* C26: the initial draft and each cycle's revision lie in pairwise distinct
\* files, each written exactly once in a run, and each holds what that one
\* write put there at every later stage of the run.
DraftsWrittenOnce ==
  /\ Cardinality(DraftPaths) = 1 + maxCycles
  /\ \A p \in DraftPaths :
       /\ Cardinality(TextsWrittenTo(p)) = IF p \in DOMAIN files THEN 1 ELSE 0
       /\ p \in DOMAIN files => files[p] = DraftOf(p)

\* A run of two cycles at its end: the draft and both revisions are there.
DraftsWrittenOnceWitness ==
  /\ Terminal
  /\ cycle = maxCycles
  /\ DraftPaths \subseteq DOMAIN files
  /\ Len(gateLog) = maxCycles

\* The documents of one kind in the run directory that were made from text.
Kept(kind, text) ==
  {p \in DOMAIN files : files[p].kind = kind /\ files[p].about = text}

\* C27: at the end of a run of two cycles the critiques, plan and retells of
\* both cycles are in the run directory: none of the first cycle's was
\* overwritten or lost in the second.
BothCyclesKept ==
  (Terminal /\ Len(gateLog) = 2) =>
    /\ Cardinality(Kept("critique", StoryText("draft", 0))) = 2
    /\ Cardinality(Kept("plan", StoryText("draft", 0))) = 1
    /\ Cardinality(Kept("retell", StoryText("revise", 1))) = 2
    /\ Cardinality(Kept("critique", StoryText("revise", 1))) = 2
    /\ Cardinality(Kept("plan", StoryText("revise", 1))) = 1
    /\ Cardinality(Kept("retell", StoryText("revise", 2))) = 2

\* C29: a run started with --dry issues no model invocation and does not
\* fail: it never ends with an error leaving handleRun.
DryRunCompletes ==
  dry => (calls = <<>> /\ pc # "crashed")

Entries(body) == JSONparse(body).value.revision_plan

FirstIsPlan == pPlan # None /\ JSONparse(pBody).ok /\ pFence.tag \in {<<>>, <<"json">>}

\* C24: a first aggregator response whose revision_plan has more than 3
\* entries is handled as invalid (its raw text saved, one retry made) and no
\* plan with more than 3 entries is ever persisted, nor one the responses
\* did not contain; a first response with 0 to 3 entries is accepted as it
\* is, without a retry.
PlanAtMostThree ==
  /\ (FirstIsPlan /\ Entries(pBody) > 3) =>
       /\ pPlan.calls = 2
       /\ pPlan.made[1].t = "invalid"
       /\ RawPath(RUN_FILE_NAMES.plan) \in DOMAIN pPlan.files
       /\ RUN_FILE_NAMES.plan \in DOMAIN pPlan.files =>
            /\ pPlan.ok
            /\ pPlan.files[RUN_FILE_NAMES.plan] = JSONparse(pRetry).value
  /\ (FirstIsPlan /\ Entries(pBody) <= 3) =>
       /\ pPlan.calls = 1
       /\ pPlan.ok
       /\ pPlan.files[RUN_FILE_NAMES.plan] = JSONparse(pBody).value
       /\ RawPath(RUN_FILE_NAMES.plan) \notin DOMAIN pPlan.files
  /\ (pPlan # None /\ RUN_FILE_NAMES.plan \in DOMAIN pPlan.files) =>
       pPlan.files[RUN_FILE_NAMES.plan].revision_plan <= 3

\* A plan of four entries, then a plan of three on the retry.
PlanAtMostThreeWitness ==
  /\ FirstIsPlan
  /\ Entries(pBody) = 4
  /\ pPlan.ok
  /\ pPlan.files[RUN_FILE_NAMES.plan].revision_plan = 3

\* C25: validating a response wrapped in a fence, whatever its
\* language tag, gives what validating the body alone gives.
AnyFenceStripped ==
  pParsed # None => pParsed.wrapped = pParsed.plain

\* C31: over any sequence of callModel calls a client is constructed for a
\* provider at most once, on the first call routed to it, and the handle
\* stays set from then on: the providers with a handle are those a client
\* was constructed for, and those that were sent a request.
OneClientPerProvider ==
  /\ \A i, j \in DOMAIN built : built[i] = built[j] => i = j
  /\ clients = {built[i] : i \in DOMAIN built}
  /\ clients = {sent[i].backend : i \in DOMAIN sent}

\* A provider called a second time, after another provider's client was set.
OneClientPerProviderWitness ==
  /\ Len(sent) = 3
  /\ Len(built) = 2
  /\ sent[1].backend = sent[3].backend

\* C32: the retry of a validated call is the first call but for the user
\* prompt, which has the reminder appended, and when a retry is issued the
\* first raw response has been saved to the raw file of the call's target.
RetryLikeFirstAfterRaw ==
  /\ \A m \in {<<"anthropic", "/", "x">>, <<"openai", "/", "gpt-5">>} :
       /\ judgeCall(m, 2) = [judgeCall(m, 1) EXCEPT !.userPrompt = "prompt+reminder"]
       /\ aggregateCall(m, 2) =
            [aggregateCall(m, 1) EXCEPT !.userPrompt = "prompt+reminder"]
  /\ \A i \in DOMAIN calls :
       calls[i].attempt = 2 =>
         /\ RawPath(calls[i].target) \in DOMAIN files
         /\ files[RawPath(calls[i].target)].of = calls[i].target

\* C33: in runs made one after the other, the directory determineNextRunDir
\* returns was no entry of the base directory before the call, of any kind,
\* every candidate from the scanned maximum plus one up to it was taken, and
\* after the call it is a directory, next to the untouched earlier entries.
ClaimsUnusedPath ==
  \A i \in DOMAIN assigned :
    LET e == assigned[i]
        first == scanMaxIndex(e.before) + 1
    IN /\ PlainDir(e.index) \notin DOMAIN e.before
       /\ e.index >= first
       /\ \A k \in first..(e.index - 1) : PlainDir(k) \in DOMAIN e.before
       /\ PlainDir(e.index) \in DOMAIN e.after
       /\ e.after[PlainDir(e.index)] = "dir"
       /\ \A n \in DOMAIN e.before : n \in DOMAIN e.after /\ e.after[n] = e.before[n]

\* The first candidate is the name of a file: the loop goes on to the next.
ClaimsUnusedPathWitness ==
  \E i \in DOMAIN assigned :
    /\ assigned[i].index = scanMaxIndex(assigned[i].before) + 2
    /\ assigned[i].before[PlainDir(assigned[i].index - 1)] = "file"

\* C34: a run that ended published or failed left its directory under a name
\* that no entry of the base directory had: <index>_<slug> or <index>_failed
\* with the run's own index, with the first suffix whose name was free, and
\* every earlier entry of the base directory is still what it was.
RenameTargetsUnused ==
  pc \in {"published", "failed"} =>
    /\ runDir \notin DOMAIN base0
    /\ runDir \in DOMAIN base
    /\ base[runDir] = "dir"
    /\ PlainDir(runIndex) \notin DOMAIN base
    /\ runDir.index = runIndex
    /\ runDir.label = IF pc = "published" THEN titleSlug(finalTitle) ELSE "failed"
    /\ \A k \in 1..(runDir.suffix - 1) : Name(runIndex, runDir.label, k) \in DOMAIN base0
    /\ \A n \in DOMAIN base0 : n \in DOMAIN base /\ base[n] = base0[n]

\* A failed run that found <index>_failed and <index>_failed-2 taken.
RenameTargetsUnusedWitness ==
  /\ pc = "failed"
  /\ runDir.suffix = 3
  /\ Name(runIndex, "failed", 2) \in DOMAIN base0

\* C38: after a run ended published, the path recorded as the final
\* published path lies in the run directory as renamed and names a file
\* that is there.
PublishedPathExists ==
  pc = "published" =>
    /\ finalPublishedPath.dir = runDir
    /\ finalPublishedPath.dir \in DOMAIN base
    /\ finalPublishedPath.file \in DOMAIN files

\* The story that enters a cycle: the draft, then the revision before.
EnteredWith(c) == IF c = 1 THEN StoryText("draft", 0) ELSE StoryText("revise", c - 1)

\* C35: when the gate of a cycle is evaluated, and until its pass is
\* published, both critique files hold critiques of the story that entered
\* that cycle and both retell files hold retells of that cycle's revision;
\* the text of a published run is the revision of the cycle that passed.
GateReadsOwnCycle ==
  /\ pc \in {"gate", "title", "publish"} =>
       /\ Has(GateInputs)
       /\ \A p \in {RUN_FILE_NAMES.critiqueClaude, RUN_FILE_NAMES.critiqueDeepseek} :
            files[p].kind = "critique" /\ files[p].about = EnteredWith(cycle)
       /\ \A p \in {RUN_FILE_NAMES.retellClaude, RUN_FILE_NAMES.retellDeepseek} :
            files[p].kind = "retell" /\ files[p].about = StoryText("revise", cycle)
  /\ publishSuccess =>
       /\ files[RUN_FILE_NAMES.published].story = StoryText("revise", cycle)
       /\ gateLog[Len(gateLog)] = [cycle |-> cycle, publish |-> TRUE]

\* The second cycle's pass published, after a retry in the second cycle.
GateReadsOwnCycleWitness ==
  /\ pc = "published"
  /\ cycle = 2
  /\ \E i \in DOMAIN calls : calls[i].cycle = 2 /\ calls[i].attempt = 2

StructuredPaths ==
  {RUN_FILE_NAMES.critiqueClaude, RUN_FILE_NAMES.critiqueDeepseek, RUN_FILE_NAMES.plan,
   RUN_FILE_NAMES.retellClaude, RUN_FILE_NAMES.retellDeepseek}

InRange(v) == v >= 0 /\ v <= 3 * Scale

\* C36: at every point of a run each critique, plan and retell file holds a
\* document of its kind, a critique's ratings lie in [0, 3], and a raw file
\* holds raw text only; so when the gate is evaluated all eight ratings and
\* the four averages lie in [0, 3].
ArtifactsValidated ==
  /\ \A p \in StructuredPaths \cap DOMAIN files :
       /\ files[p].kind \in {"critique", "plan", "retell"}
       /\ files[p].kind = "critique" => \A d \in Dims : InRange(files[p].ratings[d])
  /\ \A p \in StructuredPaths :
       RawPath(p) \in DOMAIN files => files[RawPath(p)].kind = "raw"
  /\ (pc = "gate" /\ Has(GateInputs)) =>
       \A d \in Dims :
         /\ InRange(files[RUN_FILE_NAMES.critiqueClaude].ratings[d])
         /\ InRange(files[RUN_FILE_NAMES.critiqueDeepseek].ratings[d])
         /\ InRange(avgRatings(files[RUN_FILE_NAMES.critiqueClaude],
                               files[RUN_FILE_NAMES.critiqueDeepseek])[d])

\* The gate about to be evaluated on the highest ratings, after a response
\* that did not validate went to a raw file.
ArtifactsValidatedWitness ==
  /\ pc = "gate"
  /\ \E p \in StructuredPaths : RawPath(p) \in DOMAIN files
  /\ \A d \in Dims : files[RUN_FILE_NAMES.critiqueClaude].ratings[d] = 3 * Scale

====
